---- MODULE Spec2Model ----
(***************************************************************************)
(* Model of src/src/components/sign.jsx, the SignLanguageConversation      *)
(* React component: camera set-up, the start/stop toggle, the one-second   *)
(* capture timer, the asynchronous frame encodes and the submission of the *)
(* frame batch to the generative-AI service.                               *)
(*                                                                         *)
(* The browser runs one handler at a time, so every handler is one action. *)
(* An async function is cut at the awaits that wait for something outside  *)
(* the event loop (getUserMedia, toBlob/FileReader, generateContent); the  *)
(* code between two such awaits runs in one action.  React state set in a  *)
(* handler is committed before the next handler runs, and the passive      *)
(* effect on isRecording runs with that commit.                            *)
(***************************************************************************)
EXTENDS Integers, Sequences, FiniteSets, TLC

\* ---- bounds of the model ----
MaxCaptures == 3      \* captureFrame calls in one behaviour
MaxSessions == 2      \* start actions that take effect in one behaviour

\* ---- inputs ----
Texts == {"HELLO", "THANKS"}          \* texts the service may return
Msgs  == {"quota"}                    \* message carried by a thrown error

\* values the awaited service call can settle with (lines 139-146 / 148):
\*   text        resolves, response.text() is val
\*   structured  throws e with e.response.data.error.message = val
\*   bare        throws e with e.response set but no e.response.data
\*   other       throws e without e.response, e.message = val
Outcomes ==
  [kind : {"text"}, val : Texts] \cup
  [kind : {"structured", "other"}, val : Msgs] \cup
  [kind : {"bare"}, val : {""}]

VARIABLES
  isRecording,     \* useState(false), line 43
  response,        \* useState(''), line 44
  isProcessing,    \* useState(false), line 45
  error,           \* useState(null), line 46
  frameSequence,   \* useState([]), line 50
  isSending,       \* useState(false), line 51
  camera,          \* getUserMedia request: "pending", "granted", "denied"
  timerArmed,      \* the setInterval of the isRecording effect is live
  pending,         \* captures whose toBlob/FileReader has not called back
  captures,        \* captures[c] = session in which capture c was taken
  session,         \* number of start actions that took effect
  done,            \* log of completed encodes, in completion order
  attempts,        \* one record per stopRecording call
  serviceCalls,    \* log of generateContent requests received by the service
  lastOp,          \* the handler that ran last
  mounted,         \* the component is mounted (videoRef.current is set)
  tracks           \* tracks of the acquired stream: "none", "live", "stopped"

vars == <<isRecording, response, isProcessing, error, frameSequence,
          isSending, camera, timerArmed, pending, captures, session, done,
          attempts, serviceCalls, lastOp, mounted, tracks>>

uiVars  == <<isRecording, response, isProcessing, error, frameSequence, isSending>>
capVars == <<pending, captures, done>>
subVars == <<attempts, serviceCalls>>

\* ---- values ----
Null == <<>>                                        \* JavaScript null
HARDCODED_PROMPT == "HARDCODED_PROMPT"

CameraError == <<"Error: Unable to access camera. Please check your permissions and try again.">>
ServiceError(m) == <<"Error processing sign language: ", m, ". Please try again.">>
UnexpectedError(m) == <<"Unexpected error: ", m, ". Please try again.">>

Op(o, i, b) == [op |-> o, id |-> i, ok |-> b]

\* videoRef.current.srcObject is set exactly when getUserMedia resolved
\* while the video element was there (line 67)
SrcObject == mounted /\ camera = "granted"

Init ==
  /\ isRecording = FALSE
  /\ response = ""
  /\ isProcessing = FALSE
  /\ error = Null
  /\ frameSequence = <<>>
  /\ isSending = FALSE
  /\ camera = "pending"
  /\ timerArmed = FALSE
  /\ pending = {}
  /\ captures = <<>>
  /\ session = 0
  /\ done = <<>>
  /\ attempts = <<>>
  /\ serviceCalls = <<>>
  /\ lastOp = Op("mount", 0, TRUE)
  /\ mounted = TRUE
  /\ tracks = "none"

\* ---- setupCamera ----
SetupCameraResolved ==
  /\ camera = "pending"
  /\ camera' = "granted"
  /\ tracks' = "live"
  /\ lastOp' = Op("camera", 0, TRUE)
  /\ UNCHANGED <<uiVars, timerArmed, capVars, session, subVars, mounted>>

SetupCameraRejected ==
  /\ camera = "pending"
  /\ camera' = "denied"
  /\ error' = CameraError
  /\ lastOp' = Op("camera", 0, FALSE)
  /\ UNCHANGED <<isRecording, response, isProcessing, frameSequence, isSending,
                 timerArmed, capVars, session, subVars, mounted, tracks>>

\* ---- captureFrame: draw the video frame and start its encode ----
CaptureFrame(sess) ==
  /\ pending' = pending \cup {Len(captures) + 1}
  /\ captures' = Append(captures, sess)

\* the state updater of line 106
AppendFrame_Prepend(prevFrames, base64data) == <<base64data>> \o prevFrames

AppendFrame(prevFrames, base64data) == Append(prevFrames, base64data)

\* the append done in place (frames.push) on the array the last stop handed over
EncodeDone_InPlace(c) ==
  /\ c \in pending
  /\ pending' = pending \ {c}
  /\ frameSequence' = AppendFrame(frameSequence, c)
  /\ done' = Append(done, [frame |-> c, epoch |-> session])
  /\ lastOp' = Op("encode", c, TRUE)
  /\ attempts' = [a \in DOMAIN attempts |->
                    IF attempts[a].session = session
                      THEN [attempts[a] EXCEPT !.batch = Append(@, c)]
                      ELSE attempts[a]]
  /\ UNCHANGED <<isRecording, response, isProcessing, error, isSending, camera,
                 timerArmed, captures, session, serviceCalls, mounted, tracks>>

\* reader.onloadend of capture c
EncodeDone(c) ==
  /\ c \in pending
  /\ pending' = pending \ {c}
  /\ frameSequence' = AppendFrame(frameSequence, c)
  /\ done' = Append(done, [frame |-> c, epoch |-> session])
  /\ lastOp' = Op("encode", c, TRUE)
  /\ UNCHANGED <<isRecording, response, isProcessing, error, isSending, camera,
                 timerArmed, captures, session, subVars, mounted, tracks>>

\* ---- the effect on isRecording (lines 112-118): after a commit the
\* interval is live exactly when isRecording is true ----
IntervalEffect_NoCleanup(rec) == TRUE

IntervalEffect(rec) == rec

\* ---- startRecording (the button while isRecording is false) ----
StartGuard_None == TRUE

StartGuard == SrcObject

ErrorAfterStart_Kept(err) == err

ErrorAfterStart(err) == Null

\* startRecording without the captureFrame() call of line 81
StartRecording_NoCapture ==
  /\ ~isRecording
  /\ IF StartGuard
       THEN /\ session < MaxSessions
            /\ Len(captures) < MaxCaptures
            /\ isRecording' = TRUE
            /\ error' = ErrorAfterStart(error)
            /\ frameSequence' = <<>>
            /\ session' = session + 1
            /\ timerArmed' = IntervalEffect(TRUE)
            /\ lastOp' = Op("start", session + 1, TRUE)
            /\ UNCHANGED <<response, isProcessing, isSending, camera, capVars, subVars,
                           mounted, tracks>>
       ELSE /\ lastOp' = Op("start", session, FALSE)
            /\ UNCHANGED <<uiVars, camera, timerArmed, capVars, session, subVars,
                           mounted, tracks>>

StartRecording ==
  /\ ~isRecording
  /\ IF StartGuard
       THEN /\ session < MaxSessions
            /\ Len(captures) < MaxCaptures
            /\ isRecording' = TRUE
            /\ error' = ErrorAfterStart(error)
            /\ frameSequence' = <<>>
            /\ session' = session + 1
            /\ CaptureFrame(session + 1)
            /\ timerArmed' = IntervalEffect(TRUE)
            /\ lastOp' = Op("start", session + 1, TRUE)
            /\ UNCHANGED <<response, isProcessing, isSending, camera, done, subVars,
                           mounted, tracks>>
       ELSE /\ lastOp' = Op("start", session, FALSE)
            /\ UNCHANGED <<uiVars, camera, timerArmed, capVars, session, subVars,
                           mounted, tracks>>

\* ---- the interval callback of the isRecording effect ----
Tick ==
  /\ timerArmed
  /\ Len(captures) < MaxCaptures
  /\ CaptureFrame(session)
  /\ lastOp' = Op("tick", Len(captures) + 1, TRUE)
  /\ UNCHANGED <<uiVars, camera, timerArmed, session, done, subVars, mounted, tracks>>

\* ---- sendVideoSequenceToGoogleGenerativeAI, up to the awaited call ----
ImageParts(frames) ==
  [k \in 1..Len(frames) |-> [inlineData |-> [data |-> frames[k], mimeType |-> "image/png"]]]

Request(frames) == <<[text |-> HARDCODED_PROMPT]>> \o ImageParts(frames)

\* model.generateContent([...]): the service receives one request
GenerateContent(log, a, frames) == Append(log, [attempt |-> a, parts |-> Request(frames)])

Attempt(frames, st) ==
  [session |-> session, batch |-> frames, doneAt |-> Len(done), state |-> st,
   outcome |-> [kind |-> "none", val |-> ""]]

\* the same with setResponse("") moved above the empty check
SendVideoSequence_ClearFirst(frames) ==
  IF Len(frames) = 0
    THEN /\ isProcessing' = FALSE
         /\ response' = ""
         /\ attempts' = Append(attempts, Attempt(frames, "empty"))
         /\ UNCHANGED <<isSending, serviceCalls>>
    ELSE /\ isProcessing' = TRUE
         /\ isSending' = TRUE
         /\ response' = ""
         /\ attempts' = Append(attempts, Attempt(frames, "inflight"))
         /\ serviceCalls' = GenerateContent(serviceCalls, Len(attempts) + 1, frames)

\* called from stopRecording after setIsProcessing(true)
SendVideoSequence(frames) ==
  IF Len(frames) = 0
    THEN /\ isProcessing' = FALSE
         /\ attempts' = Append(attempts, Attempt(frames, "empty"))
         /\ UNCHANGED <<response, isSending, serviceCalls>>
    ELSE /\ isProcessing' = TRUE
         /\ isSending' = TRUE
         /\ response' = ""
         /\ attempts' = Append(attempts, Attempt(frames, "inflight"))
         /\ serviceCalls' = GenerateContent(serviceCalls, Len(attempts) + 1, frames)

\* ---- stopRecording (the button while isRecording is true) ----
StopRecording ==
  /\ isRecording
  /\ isRecording' = FALSE
  /\ timerArmed' = IntervalEffect(FALSE)
  /\ SendVideoSequence(frameSequence)
  /\ lastOp' = Op("stop", Len(attempts) + 1, Len(frameSequence) > 0)
  /\ UNCHANGED <<error, frameSequence, camera, capVars, session, mounted, tracks>>

\* ---- the awaited call settles: rest of try, catch, finally ----
ResponseAfterReply_Dropped(o, resp) == resp

ResponseAfterReply(o, resp) == IF o.kind = "text" THEN o.val ELSE resp

\* the catch block; for a "bare" error line 152 reads a property of
\* undefined and throws before setError is reached
ErrorAfterReply(o, err) ==
  CASE o.kind = "structured" -> ServiceError(o.val)
    [] o.kind = "other"      -> UnexpectedError(o.val)
    [] OTHER                 -> err

\* the finally block
ProcessingAfterReply_NoFinally(o, proc) == IF o.kind = "text" THEN FALSE ELSE proc

ProcessingAfterReply(o, proc) == FALSE

\* neither catch nor finally calls the service again
CallsAfterReply_Retry(a, o, log) ==
  IF o.kind = "text" THEN log ELSE GenerateContent(log, a, attempts[a].batch)

CallsAfterReply(a, o, log) == log

Reply(a, o) ==
  /\ a \in DOMAIN attempts
  /\ attempts[a].state = "inflight"
  /\ response' = ResponseAfterReply(o, response)
  /\ error' = ErrorAfterReply(o, error)
  /\ isProcessing' = ProcessingAfterReply(o, isProcessing)
  /\ isSending' = FALSE
  /\ attempts' = [attempts EXCEPT ![a].state = "settled", ![a].outcome = o]
  /\ lastOp' = Op("reply", a, o.kind = "text")
  /\ serviceCalls' = CallsAfterReply(a, o, serviceCalls)
  /\ UNCHANGED <<isRecording, frameSequence, camera, timerArmed, capVars, session,
                 mounted, tracks>>

Next ==
  \/ SetupCameraResolved
  \/ SetupCameraRejected
  \/ StartRecording
  \/ Tick
  \/ \E c \in 1..MaxCaptures : EncodeDone(c)
  \/ StopRecording
  \/ \E a \in 1..MaxSessions, o \in Outcomes : Reply(a, o)

Spec == Init /\ [][Next]_vars

\* ---- teardown: the cleanups of both effects (lines 55-60 and 117) ----
\* streamRef.current is set only once getUserMedia has resolved
TracksAfterUnmount(cam, tr) == IF cam = "granted" THEN "stopped" ELSE tr

Unmount ==
  /\ mounted
  /\ mounted' = FALSE
  /\ tracks' = TracksAfterUnmount(camera, tracks)
  /\ timerArmed' = FALSE
  /\ lastOp' = Op("unmount", 0, camera = "granted")
  /\ UNCHANGED <<uiVars, camera, capVars, session, subVars>>

\* getUserMedia settles after the unmount: streamRef.current is assigned,
\* videoRef.current is null, and no cleanup runs any more
SetupCameraResolvedUnmounted ==
  /\ ~mounted
  /\ camera = "pending"
  /\ camera' = "granted"
  /\ tracks' = "live"
  /\ lastOp' = Op("camera", 1, TRUE)
  /\ UNCHANGED <<uiVars, timerArmed, capVars, session, subVars, mounted>>

\* setError on the unmounted component changes nothing
SetupCameraRejectedUnmounted ==
  /\ ~mounted
  /\ camera = "pending"
  /\ camera' = "denied"
  /\ lastOp' = Op("camera", 1, FALSE)
  /\ UNCHANGED <<uiVars, timerArmed, capVars, session, subVars, mounted, tracks>>

\* callbacks that fire after the unmount: their state updates are dropped
EncodeDoneUnmounted(c) ==
  /\ ~mounted
  /\ c \in pending
  /\ pending' = pending \ {c}
  /\ lastOp' = Op("encode", c, FALSE)
  /\ UNCHANGED <<uiVars, camera, timerArmed, captures, done, session, subVars,
                 mounted, tracks>>

ReplyUnmounted(a, o) ==
  /\ ~mounted
  /\ a \in DOMAIN attempts
  /\ attempts[a].state = "inflight"
  /\ attempts' = [attempts EXCEPT ![a].state = "dropped", ![a].outcome = o]
  /\ lastOp' = Op("reply", a, FALSE)
  /\ UNCHANGED <<uiVars, camera, timerArmed, capVars, session, serviceCalls,
                 mounted, tracks>>

LifeNext ==
  \/ mounted /\ Next
  \/ Unmount
  \/ SetupCameraResolvedUnmounted
  \/ SetupCameraRejectedUnmounted
  \/ \E c \in 1..MaxCaptures : EncodeDoneUnmounted(c)
  \/ \E a \in 1..MaxSessions, o \in Outcomes : ReplyUnmounted(a, o)

\* the component with its teardown
LifeSpec == Init /\ [][LifeNext]_vars

\* the service call of every attempt eventually returns or throws
FairSpec == Spec /\ \A a \in 1..MaxSessions : WF_vars(\E o \in Outcomes : Reply(a, o))

TypeOK ==
  /\ isRecording \in BOOLEAN /\ isProcessing \in BOOLEAN /\ isSending \in BOOLEAN
  /\ response \in Texts \cup {""}
  /\ camera \in {"pending", "granted", "denied"}
  /\ pending \subseteq 1..MaxCaptures
  /\ Len(captures) <= MaxCaptures
  /\ session \in 0..MaxSessions
  /\ Len(attempts) <= session

\* ---- helpers of the properties ----
CallsFor(a) == {k \in DOMAIN serviceCalls : serviceCalls[k].attempt = a}

Latest == Len(attempts)

\* frames whose encode completed in the session of attempt a, before its stop
CompletedBefore(a) ==
  LET InSession(d) == d.epoch = attempts[a].session
      sel == SelectSeq(SubSeq(done, 1, attempts[a].doneAt), InSession)
  IN  [k \in 1..Len(sel) |-> sel[k].frame]

SetsOutcome(o) == o.kind \in {"text", "structured", "other"}

\* C1: a stop with zero captured frames issues no call to the service and
\* leaves lastError a non-empty message.
C1_EmptyStopSurfacesError ==
  (lastOp.op = "stop" /\ ~lastOp.ok) =>
     (CallsFor(lastOp.id) = {} /\ error # Null)

\* C2: in every reachable state lastResult and lastError are never both
\* non-empty.
C2_NotBothResultAndError == ~(response # "" /\ error # Null)

\* C3: every stop action is eventually followed by a state in which
\* processingFlag is false, whatever the outcome of the attempt, given that
\* the service call eventually returns or throws.
C3_ProcessingEventuallyCleared == (lastOp.op = "stop") ~> ~isProcessing

C3_Witness ==
  \E a \in DOMAIN attempts :
     /\ attempts[a].outcome.kind \in {"structured", "other", "bare"}
     /\ lastOp = Op("reply", a, FALSE)
     /\ ~isProcessing

\* C4: processingFlag is not false while the attempt of the latest stop is
\* in flight or has set neither a result nor an error.
C4_ProcessingUntilOutcome ==
  (Latest > 0 /\ ~isProcessing) =>
     (attempts[Latest].state = "settled" /\ SetsOutcome(attempts[Latest].outcome))

\* C5: every stop with a non-empty frames sequence has exactly one call to
\* the interpretation service, also after its outcome is known (no retry).
C5_ExactlyOneCall ==
  \A a \in DOMAIN attempts :
     Len(attempts[a].batch) > 0 => Cardinality(CallsFor(a)) = 1

C5_Witness ==
  \E a \in DOMAIN attempts :
     /\ attempts[a].state = "settled"
     /\ attempts[a].outcome.kind # "text"
     /\ Len(attempts[a].batch) > 0
     /\ Cardinality(CallsFor(a)) = 1

\* C6: if N >= 1 encodes completed between the last start and the stop, the
\* batch submitted by that stop is exactly those N frames in the order their
\* encodes completed.
C6_BatchIsFramesAtStop ==
  \A a \in DOMAIN attempts :
     Len(CompletedBefore(a)) >= 1 => attempts[a].batch = CompletedBefore(a)

C6_Witness ==
  \E a \in DOMAIN attempts :
     /\ Len(attempts[a].batch) >= 2
     /\ attempts[a].batch[1] > attempts[a].batch[2]
     /\ attempts[a].batch = CompletedBefore(a)

\* C7: in every reachable state the frames sequence is in capture-time
\* order: a frame captured earlier sits at a lower index.
C7_CaptureTimeOrder ==
  \A i, j \in DOMAIN frameSequence :
     i < j => frameSequence[i] < frameSequence[j]

\* C8 (as stated): immediately after a start action that takes effect both
\* lastError and lastResult are empty.
C8_StartClearsErrorAndResult ==
  (lastOp.op = "start" /\ lastOp.ok) => (error = Null /\ response = "")

\* C8 (amended): a start action that takes effect leaves lastError empty
\* and leaves lastResult as it was.
C8_StartClearsErrorOnly ==
  [][(lastOp'.op = "start" /\ lastOp'.ok) => (error' = Null /\ response' = response)]_vars

C8_Witness ==
  /\ lastOp.op = "start" /\ lastOp.ok
  /\ response # ""
  /\ error = Null
  /\ \E a \in DOMAIN attempts : attempts[a].outcome.kind = "text"

\* C9: when a submission attempt completes, on success lastResult is the
\* returned text and lastError is empty; on failure lastError is non-empty
\* and lastResult is empty.
C9_OutcomeStored ==
  lastOp.op = "reply" =>
     IF lastOp.ok
       THEN response = attempts[lastOp.id].outcome.val /\ error = Null
       ELSE error # Null /\ response = ""

\* C10: once camera access is denied, lastError is the device-access message
\* and the session stays idle whatever start actions follow: not recording,
\* no frames, no timer, no capture, no service call.
C10_DeniedStaysIdle ==
  camera = "denied" =>
     /\ error = CameraError
     /\ ~isRecording
     /\ frameSequence = <<>>
     /\ ~timerArmed
     /\ captures = <<>> /\ pending = {}
     /\ attempts = <<>> /\ serviceCalls = <<>>

C10_Witness == camera = "denied" /\ lastOp = Op("start", 0, FALSE)

\* C11: once the component is unmounted and the camera-access request has
\* settled, no acquired stream has a live track, whatever the order of
\* access resolution and unmount.
C11_TracksStoppedAfterUnmount ==
  (~mounted /\ camera # "pending") => tracks # "live"

\* C12: after a stop no capture is started until the next start: a step
\* that starts a capture ends with recordingFlag true, so no capture tick
\* fires while recordingFlag is false, and the timer is live only while
\* recording.
C12_NoCaptureAfterStop ==
  [][(captures' # captures => isRecording') /\ (timerArmed' => isRecording')]_vars

C12_Witness ==
  /\ lastOp.op = "stop"
  /\ ~isRecording /\ ~timerArmed
  /\ Len(captures) < MaxCaptures
  /\ \E c \in DOMAIN captures : captures[c] = session /\ lastOp.id = Latest

IsServiceError(e) == Len(e) = 3 /\ e[1] = "Error processing sign language: "

IsUnexpectedError(e) == Len(e) = 3 /\ e[1] = "Unexpected error: "

\* C13: a failed attempt fires exactly one error path: a structured failure
\* leaves lastError the message built from the service's message field, any
\* other failure leaves the generic 'Unexpected error' message, and a
\* failure never leaves lastError without one of the two.
C13_ExactlyOneErrorPath ==
  (lastOp.op = "reply" /\ ~lastOp.ok) =>
     LET o == attempts[lastOp.id].outcome
     IN  /\ o.kind = "structured" => error = ServiceError(o.val)
         /\ o.kind = "other" => error = UnexpectedError(o.val)
         /\ IsServiceError(error) \/ IsUnexpectedError(error)

\* the scenario of C14: one session, three captures whose encodes all
\* completed before the stop, and the service has just returned a text
Scenario3 ==
  /\ session = 1
  /\ Len(captures) = 3
  /\ Latest = 1
  /\ Len(attempts[1].batch) = 3
  /\ attempts[1].outcome.kind = "text"
  /\ lastOp = Op("reply", 1, TRUE)

\* C14 (as stated): after start, 3 completed captures, stop and a returned
\* text T, lastResult = T, the frames sequence is empty and processingFlag
\* is false.
C14_ScenarioFramesDiscarded ==
  Scenario3 =>
     /\ response = attempts[1].outcome.val
     /\ frameSequence = <<>>
     /\ ~isProcessing

\* C14 (amended): after start, 3 completed captures, stop and a returned
\* text T, lastResult = T, processingFlag is false, and the frames sequence
\* still holds the 3 submitted frames.
C14_ScenarioFramesKept ==
  Scenario3 =>
     /\ response = attempts[1].outcome.val
     /\ response \in Texts
     /\ error = Null
     /\ frameSequence = attempts[1].batch
     /\ Len(frameSequence) = 3
     /\ ~isProcessing

C14_Witness == Scenario3 /\ response = "HELLO" /\ frameSequence = <<1, 2, 3>>

InFlight == {a \in DOMAIN attempts : attempts[a].state = "inflight"}

\* C16: the frames sequence and every submitted batch hold only frames
\* captured in their own session: a frame whose capture began before the
\* latest start never appears in a later session's sequence or batch.
C16_OnlyOwnSessionFrames ==
  /\ \A i \in DOMAIN frameSequence : captures[frameSequence[i]] = session
  /\ \A a \in DOMAIN attempts :
        \A i \in DOMAIN attempts[a].batch :
           captures[attempts[a].batch[i]] = attempts[a].session

\* C17: recordingFlag and processingFlag are never both true, and at most
\* one interpretation request is in flight at any time.
C17_LinearMachine ==
  /\ ~(isRecording /\ isProcessing)
  /\ Cardinality(InFlight) <= 1

\* C18: once every issued call has settled, what is displayed is the
\* outcome of the most recent stop's submission and nothing of an earlier
\* one: its text with no error, or its error message with no result.
C18_LatestOutcomeDisplayed ==
  ( /\ InFlight = {}
    /\ Latest > 0
    /\ ~isRecording
    /\ attempts[Latest].state = "settled"
    /\ SetsOutcome(attempts[Latest].outcome) ) =>
     LET o == attempts[Latest].outcome
     IN  CASE o.kind = "text"       -> response = o.val /\ error = Null
           [] o.kind = "structured" -> error = ServiceError(o.val) /\ response = ""
           [] OTHER                 -> error = UnexpectedError(o.val) /\ response = ""

\* C19: the batch handed over at stop is a snapshot: an encode completing
\* after the stop appends to the frames sequence and leaves the batch of
\* every attempt and every request already built exactly as they were, the
\* request being the prompt followed by the image parts of that batch.
C19_BatchIsSnapshot ==
  /\ [][lastOp'.op = "encode" =>
          /\ \A a \in DOMAIN attempts : attempts'[a].batch = attempts[a].batch
          /\ serviceCalls' = serviceCalls
          /\ Len(frameSequence') = Len(frameSequence) + 1]_vars
  /\ [](\A k \in DOMAIN serviceCalls :
          serviceCalls[k].parts = Request(attempts[serviceCalls[k].attempt].batch))

C19_Witness ==
  /\ lastOp.op = "encode"
  /\ ~isRecording
  /\ Latest > 0
  /\ attempts[Latest].session = session
  /\ attempts[Latest].state = "inflight"
  /\ Len(frameSequence) > Len(attempts[Latest].batch)
  /\ Len(serviceCalls[Len(serviceCalls)].parts) = Len(attempts[Latest].batch) + 1

\* C20: a stop with an empty frames sequence changes only recordingFlag and
\* processingFlag, which end false: lastResult, lastError, the frames
\* sequence and the sending flag are as they were before the stop, and no
\* call is made.
C20_EmptyStopFrame ==
  [][(lastOp'.op = "stop" /\ ~lastOp'.ok) =>
       /\ ~isRecording' /\ ~isProcessing'
       /\ response' = response
       /\ error' = error
       /\ frameSequence' = frameSequence
       /\ isSending' = isSending
       /\ serviceCalls' = serviceCalls]_vars

C20_Witness ==
  /\ lastOp.op = "stop" /\ ~lastOp.ok
  /\ response # ""
  /\ frameSequence = <<>>
  /\ ~isProcessing
====
